---- MODULE Spec2Model ----
(***************************************************************************)
(* Model of the Reddit ingestion pipeline:                                 *)
(*   RedditAPI        src/sentiment_analysis/API/reddit.py                 *)
(*   RedditManager    src/sentiment_analysis/platform_managers.py          *)
(*   DatabaseManager  src/database/database_manager.py                     *)
(* The Pushshift search endpoint, the PRAW detail API and the relational   *)
(* store are the environment.                                              *)
(***************************************************************************)
EXTENDS Integers, Sequences, FiniteSets, TLC

VARIABLES
    pc,           \* position of the single thread of control
    pbefore,      \* params['before']: [t |-> "str" | "int", v |-> epoch seconds]
    before,       \* local `before` of get_submissions (reddit.py:62)
    after,        \* local `after` of get_submissions (reddit.py:61)
    limit,        \* local `limit` of get_submissions (reddit.py:63)
    submissions,  \* local list `submissions` of get_submissions: ids, in order
    sent,         \* the `before` value of every page request issued, in order
    script,       \* the page responses the source gave to the first call
    replay,       \* TRUE while the source repeats the responses of `script`
    warnings,     \* number of logger.warning calls made so far
    gsret,        \* outcome of get_submissions
    epoch,        \* environment: how far scores and comment threads have moved on
    call,         \* the public operation in progress and its arguments
    arg,          \* a single API or helper call: the function and its inputs
    res,          \* ... and what it gave back
    tblSubreddits,    \* store: rows of models.Subreddits, in insertion order
    tblSubmissions,   \* store: rows of models.RedditSubmissions
    tblComments,      \* store: rows of models.RedditComments
    processed_submissions,  \* fetch_data: local of that name
    submission_ids,         \* update_submissions: local of that name
    updated_submissions,    \* update_submissions: local of that name
    fetched_comments,       \* local `comments`: what get_comments returned
    processed_comments,     \* local of that name
    updated_comments,       \* update_comments: local of that name
    lastfetch,    \* arguments of the last fetch_data call and whether it completed
    ncalls,       \* public operations started so far
    dbcalls,      \* the store calls of the running operation (of the running
                  \* ticker pass in update_submissions), in order
    lastins,      \* the latest insert_values call: table, keys, keys already stored
    sessions,     \* DBConnection: the sessions self.Session() has made, in order
    cur,          \* DBConnection: the attribute self.session (index, 0 = unset)
    callers,      \* the threads inside insert_values on one DatabaseManager
    pipelines     \* fetch_data runs of separate processes on one store

pagingVars == <<pbefore, before, after, limit, submissions, sent, script,
                replay, warnings, gsret>>
envVars == <<epoch>>

callVars == <<arg, res>>

storeVars == <<tblSubreddits, tblSubmissions, tblComments>>
wfLocals == <<processed_submissions, submission_ids, updated_submissions,
              fetched_comments, processed_comments, updated_comments>>
wfVars == <<wfLocals, lastfetch, ncalls, lastins, dbcalls>>
gsLocals == <<pbefore, before, after, limit, submissions, sent, warnings, gsret>>

sessVars == <<sessions, cur, callers>>
raceVars == <<pipelines>>
concVars == <<sessVars, raceVars>>
vars == <<pc, pagingVars, envVars, call, callVars, storeVars, wfVars, concVars>>

----------------------------------------------------------------------------
(* Bounds of the model *)

NItems == 4        \* submissions the search index holds
MaxLimit == 3      \* largest `limit` a query carries
MaxPage == 2       \* most items the source puts on one page
MaxRequests == 5   \* page requests followed in one call
MaxEpoch == 1      \* times the environment moves scores and threads on
MaxIds == 3        \* longest id list or batch handed to a single call
MaxCalls == 2      \* public operations (fetch_data, update_submissions) per run
MaxCallers == 2    \* threads inside insert_values on one DatabaseManager
MaxBatch == 2      \* rows of the batch one such thread inserts
MaxPipelines == 2  \* processes running fetch_data on one store at a time

(* Program constants *)

before_decay == 18000

----------------------------------------------------------------------------
(* The search index (Pushshift): submissions 1..NItems, newest first.     *)
(* Submissions 2 and 3 share one creation time.                           *)

SubmissionIds == 1..NItems

CreatedUtc(i) == 90000 - (20000 * (i \div 2))

BeforeChoices == {100000, 90000}
AfterChoices == {0, 85000}

Min(a, b) == IF a < b THEN a ELSE b

\* ids of 1..n in ascending order that satisfy Keep (newest first)
RECURSIVE AscendingIds(_, _)
AscendingIds(S, n) ==
    IF n = 0 THEN <<>>
    ELSE AscendingIds(S, n - 1) \o (IF n \in S THEN <<n>> ELSE <<>>)

\* The search request: created_utc strictly inside (after, before),
\* sorted by created_utc descending.
Matching(b, a) ==
    AscendingIds({i \in SubmissionIds : CreatedUtc(i) < b /\ CreatedUtc(i) > a},
                 NItems)

\* What one page request can come back with.
PageResponses(b, a, lim) ==
    {[kind |-> "transport", n |-> 0], [kind |-> "malformed", n |-> 0]}
    \cup {[kind |-> "data", n |-> k] :
            k \in 0..Min(Min(lim, MaxPage), Len(Matching(b, a)))}

PageData(b, a, n) == SubSeq(Matching(b, a), 1, n)

\* The fields of one search hit (the `fields` of fetch_data); the score of the
\* search index is the one the submission had when it was indexed.
RawTitle(i) == <<"raw", i>>
SubredditName(i) == IF i % 2 = 1 THEN "wallstreetbets" ELSE "investing"
StaleScore(i) == 0

----------------------------------------------------------------------------
(* The detail API (PRAW).  Comment ids are 10 * submission + k.            *)

Score(id, e) == id + (100 * (e + 1))

CommentIdsOf(sid, e) == [k \in 1..(e + (sid % 2)) |-> (10 * sid) + k]

AllCommentIds == {(10 * s) + k : s \in SubmissionIds, k \in 1..(MaxEpoch + 1)}

SubmissionOf(cid) == cid \div 10

RawBody(cid) == <<"raw", cid>>

\* pd.to_datetime(..., unit='s')
ToDatetime(t) == <<"datetime", t>>

\* The ids of one call whose PRAW fetch may fail (deleted, inaccessible): the
\* call's outcome is decided by the first one that does.
FailChoices(ids) == {{}} \cup {{ids[k]} : k \in 1..Len(ids)}

\* index of the first element of ids that lies in F, 0 when there is none
FirstIn(ids, F) ==
    IF \E k \in 1..Len(ids) : ids[k] \in F
    THEN CHOOSE k \in 1..Len(ids) :
            ids[k] \in F /\ \A j \in 1..(k - 1) : ids[j] \notin F
    ELSE 0

\* RedditAPI.get_submission_details / get_comment_details with fields
\* ['id', 'score']: one lookup per id, in order, nothing caught.
\* badid: ids for which building the PRAW object raises; gn: ids whose fetch
\* raises.
GetDetails(ids, badid, gn, e) ==
    LET k == FirstIn(ids, badid \cup gn)
        n == IF k = 0 THEN Len(ids) ELSE k - 1
    IN [raised |-> k # 0,
        looked |-> SubSeq(ids, 1, IF k = 0 THEN Len(ids) ELSE k),
        rows   |-> [j \in 1..n |-> [id |-> ids[j], score |-> Score(ids[j], e)]]]

GetSubmissionDetails(ids, badid, gn, e) == GetDetails(ids, badid, gn, e)

GetCommentDetails(ids, badid, gn, e) == GetDetails(ids, badid, gn, e)

\* rows that carry the comment's own id in the submission_id column
CommentsOfSubmission_own_id(sid, e) ==
    LET cs == CommentIdsOf(sid, e)
    IN [k \in 1..Len(cs) |->
          [created_utc   |-> ToDatetime(CreatedUtc(sid) + k),
           submission_id |-> cs[k],
           comment_id    |-> cs[k],
           body          |-> RawBody(cs[k]),
           score         |-> Score(cs[k], e)]]

\* the rows get_comments appends for one submission
CommentsOfSubmission(sid, e) ==
    LET cs == CommentIdsOf(sid, e)
    IN [k \in 1..Len(cs) |->
          [created_utc   |-> ToDatetime(CreatedUtc(sid) + k),
           submission_id |-> sid,
           comment_id    |-> cs[k],
           body          |-> RawBody(cs[k]),
           score         |-> Score(cs[k], e)]]

RECURSIVE CommentRows(_, _)
CommentRows(ids, e) ==
    IF ids = <<>> THEN <<>>
    ELSE CommentsOfSubmission(Head(ids), e) \o CommentRows(Tail(ids), e)

\* RedditAPI.get_comments: building the PRAW object is inside the try (bad id:
\* warning, continue); reading submission.comments is outside it.
GetComments(ids, badid, gn, e) ==
    LET k == FirstIn(ids, gn \ badid)
        upto == SubSeq(ids, 1, IF k = 0 THEN Len(ids) ELSE k)
        read == SelectSeq(SubSeq(ids, 1, IF k = 0 THEN Len(ids) ELSE k - 1),
                          LAMBDA x : x \notin badid)
    IN [raised   |-> k # 0,
        looked   |-> upto,
        warned   |-> Len(SelectSeq(upto, LAMBDA x : x \in badid)),
        rows     |-> CommentRows(read, e)]

----------------------------------------------------------------------------
(* RedditManager.process_submissions / process_comments: the duplicate      *)
(* filter.  stored is the id column read from the store.                    *)

\* a membership test that looks at the first stored id only
IsIn_first_only(x, column) == column # <<>> /\ column[1] = x

IsIn(x, column) == \E k \in 1..Len(column) : column[k] = x

\* a filter that lets every row through
DedupSubmissions_unfiltered(subs, stored) == subs

\* a filter that lost its negation
DedupSubmissions_kept_stored(subs, stored) ==
    SelectSeq(subs, LAMBDA r : IsIn(r.submission_id, stored))

\* submissions[~submissions.submission_id.isin(submission_ids)]
DedupSubmissions(subs, stored) ==
    SelectSeq(subs, LAMBDA r : ~IsIn(r.submission_id, stored))

\* comments[~comments.comment_id.isin(comment_ids)]
DedupComments(comments, stored) ==
    SelectSeq(comments, LAMBDA r : ~IsIn(r.comment_id, stored))

NoArg == [fn |-> "none"]
NoRes == [done |-> FALSE]

----------------------------------------------------------------------------
(* The store (DatabaseManager over the tables of models.py) *)

StoreEmpty ==
    /\ tblSubreddits = <<>>
    /\ tblSubmissions = <<>>
    /\ tblComments = <<>>

NoInsert == [model |-> "none", keys |-> <<>>, stored |-> {}]

\* nobody is inside a DBConnection scope, no second process runs
ConcurrentIdle ==
    /\ sessions = <<>>
    /\ cur = 0
    /\ callers = <<>>
    /\ pipelines = <<>>

NoFetch == [done |-> FALSE, failed |-> FALSE]

WorkflowIdle ==
    /\ processed_submissions = <<>>
    /\ submission_ids = <<>>
    /\ updated_submissions = <<>>
    /\ fetched_comments = <<>>
    /\ processed_comments = <<>>
    /\ updated_comments = <<>>
    /\ lastfetch = NoFetch
    /\ ncalls = 0
    /\ lastins = NoInsert
    /\ dbcalls = <<>>

\* one column of a table, as get_values(model).<column> gives it
Column(table, c) == [k \in 1..Len(table) |-> table[k][c]]

ColumnSet(table, c) == {table[k][c] : k \in 1..Len(table)}

\* the unique column of each table (models.py)
UniqueKey(model) ==
    CASE model = "Subreddits" -> "subreddit_id"
      [] model = "RedditSubmissions" -> "submission_id"
      [] model = "RedditComments" -> "comment_id"

\* the values of one column of a frame, as a set
IdsOf(rows, key) == {rows[k][key] : k \in 1..Len(rows)}

NoDuplicates(q) == \A i, j \in 1..Len(q) : q[i] = q[j] => i = j

\* a table without its unique constraint
InsertAllowed_unchecked(model, table, rows) == TRUE

\* whether the unique constraint lets the rows in
InsertAllowed(model, table, rows) ==
    LET keys == Column(rows, UniqueKey(model))
    IN /\ NoDuplicates(keys)
       /\ \A k \in 1..Len(keys) : keys[k] \notin ColumnSet(table, UniqueKey(model))

\* session.bulk_insert_mappings: the primary key `id` is the autoincrement
InsertValues(table, rows) ==
    table \o [k \in 1..Len(rows) |->
                [c \in DOMAIN rows[k] \cup {"id"} |->
                    IF c = "id" THEN Len(table) + k ELSE rows[k][c]]]

\* DatabaseManager.update_values up to the session: merge the table with
\* `values` on `on`, drop the table's columns (suffix _x or unsuffixed) except
\* `id`, keep the columns of `values` that collided (suffix _y).
UpdateMappings(table, values, on) ==
    LET Joined(o) == SelectSeq(values, LAMBDA v : v[on] = o[on])
        Mapping(o, v) ==
            LET collided == (DOMAIN v \cap DOMAIN o) \ {on}
            IN [c \in collided \cup {"id"} |->
                  IF c \in collided THEN v[c] ELSE o[c]]
        RowMappings(o) == [j \in 1..Len(Joined(o)) |-> Mapping(o, Joined(o)[j])]
        F[k \in 0..Len(table)] ==
            IF k = 0 THEN <<>> ELSE F[k - 1] \o RowMappings(table[k])
    IN F[Len(table)]

\* a row rebuilt from the mapping alone (the other columns are lost)
ApplyMapping_replace(row, m) ==
    IF row.id = m.id
    THEN [c \in DOMAIN row |-> IF c \in DOMAIN m THEN m[c] ELSE <<"null">>]
    ELSE row

\* an UPDATE without its WHERE clause
ApplyMapping_all_rows(row, m) ==
    [c \in DOMAIN row |-> IF c \in DOMAIN m \ {"id"} THEN m[c] ELSE row[c]]

\* UPDATE ... SET <columns of the mapping> WHERE id = :id
ApplyMapping(row, m) ==
    IF row.id = m.id
    THEN [c \in DOMAIN row |-> IF c \in DOMAIN m THEN m[c] ELSE row[c]]
    ELSE row

\* session.bulk_update_mappings
RECURSIVE BulkUpdate(_, _)
BulkUpdate(table, mappings) ==
    IF mappings = <<>> THEN table
    ELSE BulkUpdate([k \in 1..Len(table) |-> ApplyMapping(table[k], Head(mappings))],
                    Tail(mappings))

\* DatabaseManager.update_values
UpdateValues(table, values, on) ==
    BulkUpdate(table, UpdateMappings(table, values, on))

\* utils.strip_punctuation(x).lower()
Clean(text) == <<"clean", text[2]>>

----------------------------------------------------------------------------
(* RedditAPI.get_submissions *)

\* pd.merge(left=submissions_df, right=updated_scores, on='id'), then drop
\* score_x and rename id -> submission_id, score_y -> score.
RECURSIVE MergeScores(_, _)
MergeScores(left, right) ==
    IF left = <<>> THEN <<>>
    ELSE LET l == Head(left)
             m == SelectSeq(right, LAMBDA r : r.id = l.id)
         IN [j \in 1..Len(m) |->
               [submission_id |-> l.id,
                created_utc   |-> l.created_utc,
                subreddit     |-> l.subreddit,
                title         |-> l.title,
                ticker        |-> l.ticker,
                score         |-> m[j].score]]
            \o MergeScores(Tail(left), right)

\* RedditAPI._process_submissions
ProcessSubmissionsDF(subs, ticker, gn, e) ==
    LET df == [j \in 1..Len(subs) |->
                 [id          |-> subs[j],
                  created_utc |-> ToDatetime(CreatedUtc(subs[j])),
                  subreddit   |-> SubredditName(subs[j]),
                  title       |-> RawTitle(subs[j]),
                  score       |-> StaleScore(subs[j]),
                  ticker      |-> ticker]]
        updated_scores == GetSubmissionDetails(subs, {}, gn, e)
    IN IF updated_scores.raised
       THEN [status |-> "raised", frame |-> FALSE, rows |-> <<>>,
             error |-> "praw"]
       ELSE [status |-> "returned", frame |-> TRUE,
             rows |-> MergeScores(df, updated_scores.rows), error |-> "none"]

NoReturn == [status |-> "none", frame |-> FALSE, rows |-> <<>>, error |-> "none"]

Raised(e) == [status |-> "raised", frame |-> FALSE, rows |-> <<>>, error |-> e]

\* a decrement that was left out
DecayedCursor_unchanged(v) == v

\* params['before'] -= before_decay  (reddit.py:88)
DecayedCursor(v) == v - before_decay

\* params['before'] = data[-1]['created_utc']  (reddit.py:80)
LastCreatedUtc(data) == CreatedUtc(data[Len(data)])

\* the loop test of reddit.py:69
LoopCondition == before > after /\ Len(submissions) < limit

\* the response to the request about to be issued
NextResponses ==
    IF replay
    THEN IF Len(sent) < Len(script) THEN {script[Len(sent) + 1]} ELSE {}
    ELSE PageResponses(pbefore.v, after, limit)

\* One pass of the while loop: the request (reddit.py:72) and the try block.
GS_Page ==
    /\ pc = "gs_loop"
    /\ LoopCondition
    /\ Len(sent) < MaxRequests
    /\ \E r \in NextResponses :
         /\ sent' = Append(sent, pbefore.v)
         /\ script' = IF replay THEN script ELSE Append(script, r)
         /\ \/ /\ r.kind = "transport"      \* requests.get raises: not in the try
               /\ pc' = "gs_done"
               /\ gsret' = Raised("ConnectionError")
               /\ UNCHANGED <<pbefore, submissions, warnings>>
            \/ /\ r.kind = "malformed"      \* except Exception: warning, break
               /\ pc' = "gs_after"
               /\ warnings' = warnings + 1
               /\ UNCHANGED <<pbefore, submissions, gsret>>
            \/ /\ r.kind = "data" /\ r.n > 0
               /\ LET data == PageData(pbefore.v, after, r.n)
                  IN /\ pbefore' = [t |-> "int", v |-> LastCreatedUtc(data)]
                     /\ submissions' = submissions \o data
               /\ UNCHANGED <<pc, warnings, gsret>>
            \/ /\ r.kind = "data" /\ r.n = 0  \* data[-1]: IndexError
               /\ pbefore.t = "int"
               /\ pbefore' = [pbefore EXCEPT !.v = DecayedCursor(@)]
               /\ UNCHANGED <<pc, submissions, warnings, gsret>>
            \/ /\ r.kind = "data" /\ r.n = 0  \* str -= int inside the handler
               /\ pbefore.t = "str"
               /\ pc' = "gs_done"
               /\ gsret' = Raised("TypeError")
               /\ UNCHANGED <<pbefore, submissions, warnings>>
    /\ UNCHANGED <<before, after, limit, replay, envVars, call, callVars, concVars,
                   storeVars, wfVars>>

\* The code after the loop (reddit.py:94-101), reached by the loop test or a
\* break.
GS_Finish ==
    /\ \/ pc = "gs_after"
       \/ pc = "gs_loop" /\ ~LoopCondition
    /\ pc' = "gs_done"
    /\ \E gn \in FailChoices(submissions) :
         gsret' = IF submissions = <<>>
                  THEN [status |-> "returned", frame |-> FALSE, rows |-> <<>>,
                        error |-> "none"]
                  ELSE ProcessSubmissionsDF(submissions, call.ticker, gn, epoch)
    /\ UNCHANGED <<pbefore, before, after, limit, submissions, sent, script,
                   replay, warnings, envVars, call, callVars, concVars, storeVars, wfVars>>

----------------------------------------------------------------------------
(* The environment *)

\* the positions whose next step reads scores or threads from Reddit
ReadsNext ==
    \/ pc \in {"gs_after", "fd_subreddits", "fd_comments", "us_details",
               "us_comments", "us_old", "sr_body"}
    \/ pc = "gs_loop" /\ ~LoopCondition

\* votes arrive and threads grow; the program sees it at its next read
Tick ==
    /\ epoch < MaxEpoch
    /\ ReadsNext
    /\ epoch' = epoch + 1
    /\ UNCHANGED <<pc, pagingVars, call, callVars, concVars, storeVars, wfVars>>

----------------------------------------------------------------------------
(* get_submissions called on its own, with a cursor of either type *)

InitPaging ==
    /\ pc = "gs_loop"
    /\ \E b \in BeforeChoices, a \in AfterChoices, l \in 1..MaxLimit,
          t \in {"str", "int"} :
         /\ b > a
         /\ pbefore = [t |-> t, v |-> b]
         /\ before = b
         /\ after = a
         /\ limit = l
         /\ call = [op |-> "get_submissions", ticker |-> "GME", limit |-> l,
                    before |-> b, after |-> a, status |-> "running",
                    inserted |-> 0]
    /\ submissions = <<>>
    /\ sent = <<>>
    /\ script = <<>>
    /\ replay = FALSE
    /\ warnings = 0
    /\ gsret = NoReturn
    /\ epoch = 0
    /\ arg = NoArg
    /\ res = NoRes
    /\ StoreEmpty
    /\ WorkflowIdle
    /\ ConcurrentIdle

NextPaging == GS_Page \/ GS_Finish \/ Tick

SpecPaging == InitPaging /\ [][NextPaging]_vars

----------------------------------------------------------------------------
(* Single calls of the detail fetchers and of the duplicate filter, on      *)
(* inputs drawn from bounded sets.                                          *)

RECURSIVE SeqsUpTo(_, _)
SeqsUpTo(S, n) ==
    IF n = 0 THEN {<<>>}
    ELSE LET shorter == SeqsUpTo(S, n - 1)
         IN shorter \cup {Append(q, x) : q \in shorter, x \in S}

AtMostOne(S) == {{}} \cup {{x} : x \in S}

CommentIdChoices == {(10 * i) + 1 : i \in SubmissionIds}

StoredColumns(S) == {q \in SeqsUpTo(S, MaxIds) :
                        \A i, j \in 1..Len(q) : i < j => q[i] < q[j]}

InitCalls ==
    /\ pc = "call"
    /\ pbefore = [t |-> "int", v |-> 0]
    /\ before = 0
    /\ after = 0
    /\ limit = 0
    /\ submissions = <<>>
    /\ sent = <<>>
    /\ script = <<>>
    /\ replay = FALSE
    /\ warnings = 0
    /\ gsret = NoReturn
    /\ epoch \in 0..MaxEpoch
    /\ call = [op |-> "none"]
    /\ res = NoRes
    /\ StoreEmpty
    /\ WorkflowIdle
    /\ ConcurrentIdle
    /\ \/ \E fn \in {"get_submission_details", "get_comments"},
             ids \in SeqsUpTo(SubmissionIds, MaxIds),
             badid \in AtMostOne(SubmissionIds), gn \in AtMostOne(SubmissionIds) :
            arg = [fn |-> fn, ids |-> ids, badid |-> badid, gone |-> gn]
       \/ \E ids \in SeqsUpTo(CommentIdChoices, MaxIds),
             badid \in AtMostOne(CommentIdChoices), gn \in AtMostOne(CommentIdChoices) :
            arg = [fn |-> "get_comment_details", ids |-> ids, badid |-> badid,
                   gone |-> gn]
       \/ \E ids \in SeqsUpTo(SubmissionIds, MaxIds),
             stored \in StoredColumns(SubmissionIds) :
            arg = [fn |-> "process_submissions", stored |-> stored,
                   batch |-> [k \in 1..Len(ids) |-> [submission_id |-> ids[k]]]]
       \/ \E ids \in SeqsUpTo(CommentIdChoices, MaxIds),
             stored \in StoredColumns(CommentIdChoices) :
            arg = [fn |-> "process_comments", stored |-> stored,
                   batch |-> [k \in 1..Len(ids) |-> [comment_id |-> ids[k]]]]

Call_get_submission_details ==
    /\ pc = "call" /\ arg.fn = "get_submission_details"
    /\ LET r == GetSubmissionDetails(arg.ids, arg.badid, arg.gone, epoch)
       IN res' = [done |-> TRUE, raised |-> r.raised, looked |-> r.looked,
                  rows |-> r.rows, warned |-> 0]
    /\ pc' = "called"
    /\ UNCHANGED <<pagingVars, envVars, call, arg, concVars, storeVars, wfVars>>

Call_get_comment_details ==
    /\ pc = "call" /\ arg.fn = "get_comment_details"
    /\ LET r == GetCommentDetails(arg.ids, arg.badid, arg.gone, epoch)
       IN res' = [done |-> TRUE, raised |-> r.raised, looked |-> r.looked,
                  rows |-> r.rows, warned |-> 0]
    /\ pc' = "called"
    /\ UNCHANGED <<pagingVars, envVars, call, arg, concVars, storeVars, wfVars>>

Call_get_comments ==
    /\ pc = "call" /\ arg.fn = "get_comments"
    /\ LET r == GetComments(arg.ids, arg.badid, arg.gone, epoch)
       IN res' = [done |-> TRUE, raised |-> r.raised, looked |-> r.looked,
                  rows |-> r.rows, warned |-> r.warned]
    /\ pc' = "called"
    /\ UNCHANGED <<pagingVars, envVars, call, arg, concVars, storeVars, wfVars>>

Call_process_submissions ==
    /\ pc = "call" /\ arg.fn = "process_submissions"
    /\ res' = [done |-> TRUE, rows |-> DedupSubmissions(arg.batch, arg.stored)]
    /\ pc' = "called"
    /\ UNCHANGED <<pagingVars, envVars, call, arg, concVars, storeVars, wfVars>>

Call_process_comments ==
    /\ pc = "call" /\ arg.fn = "process_comments"
    /\ res' = [done |-> TRUE, rows |-> DedupComments(arg.batch, arg.stored)]
    /\ pc' = "called"
    /\ UNCHANGED <<pagingVars, envVars, call, arg, concVars, storeVars, wfVars>>

NextCalls ==
    \/ Call_get_submission_details
    \/ Call_get_comment_details
    \/ Call_get_comments
    \/ Call_process_submissions
    \/ Call_process_comments

SpecCalls == InitCalls /\ [][NextCalls]_vars

----------------------------------------------------------------------------
(* Entering and leaving the public operations of RedditManager *)

TickerChoices == {"GME", "AAPL"}

\* the window of the ingestion runs: before.strftime('%s'), after.strftime('%s')
FetchBefore == 100000
FetchAfter == 60000

\* the locals of a call are gone when it returns or raises
ResetLocals ==
    /\ pbefore' = [t |-> "str", v |-> 0]
    /\ before' = 0
    /\ after' = 0
    /\ limit' = 0
    /\ submissions' = <<>>
    /\ sent' = <<>>
    /\ warnings' = 0
    /\ gsret' = NoReturn
    /\ processed_submissions' = <<>>
    /\ submission_ids' = <<>>
    /\ updated_submissions' = <<>>
    /\ fetched_comments' = <<>>
    /\ processed_comments' = <<>>
    /\ updated_comments' = <<>>
    /\ dbcalls' = <<>>

\* fetch_data returns: c is the call record it leaves
FetchDone(c) ==
    /\ pc' = "idle"
    /\ call' = [c EXCEPT !.status = "done"]
    /\ lastfetch' = [done |-> TRUE, failed |-> FALSE, args |-> c]
    /\ ResetLocals
    /\ UNCHANGED <<script, replay>>

\* an exception leaves fetch_data
FetchAbort ==
    /\ pc' = "idle"
    /\ call' = [call EXCEPT !.status = "raised"]
    /\ lastfetch' = NoFetch
    /\ script' = <<>>
    /\ replay' = FALSE
    /\ ResetLocals

\* a failed store write leaves fetch_data (the exception of insert_values
\* propagates): subs and coms are the ids the call was about to insert
WriteAbort(subs, coms) ==
    /\ pc' = "idle"
    /\ call' = [call EXCEPT !.status = "raised"]
    /\ lastfetch' = [done |-> FALSE, failed |-> TRUE, args |-> call,
                     submissions |-> subs, comments |-> coms]
    /\ replay' = FALSE
    /\ ResetLocals
    /\ UNCHANGED script

\* an exception swallowed inside the for loop: on to the next ticker
UpdateReturn_goes_on(c, st) ==
    /\ IF st = "raised" /\ c.i < Len(c.tickers)
       THEN pc' = "us_read" /\ call' = [c EXCEPT !.i = @ + 1]
       ELSE pc' = "idle" /\ call' = [c EXCEPT !.status = st]
    /\ ResetLocals
    /\ UNCHANGED <<script, replay, lastfetch>>

\* update_submissions returns (st = "done") or an exception leaves it
UpdateReturn(c, st) ==
    /\ pc' = "idle"
    /\ call' = [c EXCEPT !.status = st]
    /\ ResetLocals
    /\ UNCHANGED <<script, replay, lastfetch>>

\* one call of a DatabaseManager method
Read(model) == [op |-> "get_values", model |-> model]
Insert(model) == [op |-> "insert_values", model |-> model]
\* update_values reads the table before it writes (database_manager.py:77)
Update(model) == <<Read(model), [op |-> "update_values", model |-> model]>>

\* the operation goes on to position p with call record c, having made the
\* store calls `made`
GoOnAfter(p, c, made) ==
    /\ pc' = p
    /\ call' = c
    /\ dbcalls' = dbcalls \o made
    /\ UNCHANGED <<gsLocals, script, replay, lastfetch>>

\* the same after a step that made no store call
GoOn(p, c) == GoOnAfter(p, c, <<>>)

\* entry of get_submissions (reddit.py:58-67) from fetch_data
EnterGetSubmissions(c) ==
    /\ pbefore' = [t |-> "str", v |-> c.before]
    /\ before' = c.before
    /\ after' = c.after
    /\ limit' = c.limit
    /\ submissions' = <<>>
    /\ sent' = <<>>
    /\ warnings' = 0
    /\ gsret' = NoReturn

\* what an insert_values call is recorded as
InsertCall(model, table, rows) ==
    LET key == UniqueKey(model)
    IN [model |-> model, keys |-> Column(rows, key),
        stored |-> ColumnSet(rows, key) \cap ColumnSet(table, key)]

----------------------------------------------------------------------------
(* RedditManager.fetch_data *)

\* fetch_data(ticker, limit, before, after) up to the call of get_submissions
FD_Call ==
    /\ pc = "idle"
    /\ ncalls < MaxCalls
    /\ \E tk \in TickerChoices, l \in 1..MaxLimit :
         LET c == [op |-> "fetch_data", ticker |-> tk, limit |-> l,
                   before |-> FetchBefore, after |-> FetchAfter,
                   status |-> "running", inserted |-> 0]
         IN call' = c /\ EnterGetSubmissions(c)
    /\ script' = <<>>
    /\ replay' = FALSE
    /\ lastfetch' = NoFetch
    /\ ncalls' = ncalls + 1
    /\ pc' = "gs_loop"
    /\ lastins' = NoInsert
    /\ dbcalls' = <<>>
    /\ UNCHANGED <<envVars, callVars, concVars, storeVars, wfLocals>>

\* fetch_data invoked again with the arguments of the call that completed,
\* the source answering the page requests as it did then
FD_CallAgain ==
    /\ pc = "idle"
    /\ ncalls < MaxCalls
    /\ lastfetch.done
    /\ call' = [lastfetch.args EXCEPT !.status = "running", !.inserted = 0,
                                      !.op = "fetch_data_again"]
    /\ EnterGetSubmissions(lastfetch.args)
    /\ replay' = TRUE
    /\ ncalls' = ncalls + 1
    /\ pc' = "gs_loop"
    /\ lastins' = NoInsert
    /\ dbcalls' = <<>>
    /\ UNCHANGED <<script, lastfetch, envVars, callVars, concVars, storeVars, wfLocals>>

\* fetch_data invoked again with the arguments of the call that a failed store
\* write ended, the source answering the page requests as it did then
FD_Retry ==
    /\ pc = "idle"
    /\ ncalls < MaxCalls
    /\ lastfetch.failed
    /\ LET a == lastfetch.args
           c == [op |-> "fetch_data_retry", ticker |-> a.ticker,
                 limit |-> a.limit, before |-> a.before, after |-> a.after,
                 status |-> "running", inserted |-> 0,
                 pending |-> [submissions |-> lastfetch.submissions,
                              comments |-> lastfetch.comments]]
       IN call' = c /\ EnterGetSubmissions(c)
    /\ replay' = TRUE
    /\ ncalls' = ncalls + 1
    /\ pc' = "gs_loop"
    /\ lastins' = NoInsert
    /\ dbcalls' = <<>>
    /\ UNCHANGED <<script, lastfetch, envVars, callVars, concVars, storeVars, wfLocals>>

IsFetch == call.op \in {"fetch_data", "fetch_data_again", "fetch_data_retry"}

\* process_submissions, lines 126-132: read the stored ids, drop the
\* duplicates.  get_submissions raising ends fetch_data; its empty list has
\* no submission_id (AttributeError).
FD_ProcessSubmissions ==
    /\ pc = "gs_done" /\ IsFetch
    /\ IF gsret.status = "raised" \/ ~gsret.frame
       THEN FetchAbort
       ELSE LET kept == DedupSubmissions(gsret.rows,
                                         Column(tblSubmissions, "submission_id"))
            IN IF kept = <<>>
               THEN FetchDone(call)
               ELSE /\ GoOnAfter("fd_subreddits", call, <<Read("RedditSubmissions")>>)
                    /\ processed_submissions' = kept
                    /\ UNCHANGED <<submission_ids, updated_submissions,
                                   fetched_comments, processed_comments,
                                   updated_comments>>
    /\ UNCHANGED <<envVars, callVars, concVars, storeVars, ncalls, lastins>>

\* the orders list(set(...)) can give
Orders(S) == {q \in SeqsUpTo(S, Cardinality(S)) :
                 Len(q) = Cardinality(S) /\ NoDuplicates(q)}

Subscribers(name, e) == 1000 + e

\* sub.name: the fullname t5_<base36>, kept as the number behind the prefix
SubredditFullname(name) == IF name = "wallstreetbets" THEN 5001 ELSE 5002

\* a loop that returns after its first pass
GetSubredditDetails_first(names, e) ==
    IF names = <<>> THEN <<>>
    ELSE <<[name |-> names[1], subreddit_id |-> SubredditFullname(names[1]),
            subscribers |-> Subscribers(names[1], e)]>>

\* RedditAPI.get_subreddit_details
GetSubredditDetails(names, e) ==
    [k \in 1..Len(names) |->
       [name |-> names[k], subreddit_id |-> SubredditFullname(names[k]),
        subscribers |-> Subscribers(names[k], e)]]

\* a filter that takes every candidate name as stored already
NewSubs_none(subreddits_list) == {}

\* the names update_subreddits finds new (platform_managers.py:94-97)
NewSubs(subreddits_list) ==
    {subreddits_list[k] : k \in 1..Len(subreddits_list)}
        \ ColumnSet(tblSubreddits, "name")

\* update_subreddits(list(submissions.subreddit)) (add-new mode), called by
\* process_submissions at line 138
FD_UpdateSubreddits ==
    /\ pc = "fd_subreddits"
    /\ LET new_subs == NewSubs(Column(processed_submissions, "subreddit"))
       IN IF new_subs = {}
          THEN /\ GoOnAfter("fd_map", call, <<Read("Subreddits")>>)
               /\ UNCHANGED <<wfLocals, tblSubreddits, lastins>>
          ELSE \E order \in Orders(new_subs), praw_ok \in BOOLEAN, db_ok \in BOOLEAN :
                 LET new_sub_info == GetSubredditDetails(order, epoch)
                 IN IF ~praw_ok
                    THEN FetchAbort /\ UNCHANGED <<tblSubreddits, lastins>>
                    ELSE /\ lastins' = [model |-> "Subreddits",
                                        keys |-> Column(new_sub_info, "name"),
                                        stored |-> {}]
                         /\ IF db_ok /\ InsertAllowed("Subreddits", tblSubreddits,
                                                      new_sub_info)
                            THEN /\ tblSubreddits' =
                                      InsertValues(tblSubreddits, new_sub_info)
                                 /\ GoOnAfter("fd_map",
                                         [call EXCEPT !.inserted =
                                                 @ + Len(new_sub_info)],
                                         <<Read("Subreddits"),
                                           Insert("Subreddits")>>)
                                 /\ UNCHANGED wfLocals
                            ELSE /\ WriteAbort(IdsOf(processed_submissions,
                                                       "submission_id"), {})
                                 /\ UNCHANGED tblSubreddits
    /\ UNCHANGED <<envVars, callVars, concVars, tblSubmissions, tblComments, ncalls>>

\* stored_subreddits.id[stored_subreddits.name == x]
SubredditRows(name) == SelectSeq(tblSubreddits, LAMBDA r : r.name = name)

\* .item() gives a value only when exactly one stored row has the name
CanMap(rows) ==
    \A k \in 1..Len(rows) : Len(SubredditRows(rows[k].subreddit)) = 1

\* lines 141-151: subreddit name -> stored id, column renamed, title cleaned
MapSubreddits(rows) ==
    [k \in 1..Len(rows) |->
       LET r == rows[k]
       IN [submission_id |-> r.submission_id,
           created_utc   |-> r.created_utc,
           subreddit_id  |-> SubredditRows(r.subreddit)[1].id,
           title         |-> Clean(r.title),
           ticker        |-> r.ticker,
           score         |-> r.score]]

\* process_submissions, lines 140-153: subreddit name -> stored id, rename
\* the column, clean the title; .item() raises unless one row matches
FD_MapSubreddits ==
    /\ pc = "fd_map"
    /\ IF CanMap(processed_submissions)
       THEN /\ processed_submissions' = MapSubreddits(processed_submissions)
            /\ GoOnAfter("fd_insert", call, <<Read("Subreddits")>>)
            /\ UNCHANGED <<submission_ids, updated_submissions,
                           fetched_comments, processed_comments, updated_comments>>
       ELSE FetchAbort
    /\ UNCHANGED <<envVars, callVars, concVars, storeVars, ncalls, lastins>>

\* insert_values(models.RedditSubmissions, processed_submissions)
FD_InsertSubmissions ==
    /\ pc = "fd_insert"
    /\ lastins' = InsertCall("RedditSubmissions", tblSubmissions,
                             processed_submissions)
    /\ \E db_ok \in BOOLEAN :
         IF db_ok /\ InsertAllowed("RedditSubmissions", tblSubmissions,
                                   processed_submissions)
         THEN /\ tblSubmissions' = InsertValues(tblSubmissions, processed_submissions)
              /\ GoOnAfter("fd_comments",
                           [call EXCEPT !.inserted = @ + Len(processed_submissions)],
                           <<Insert("RedditSubmissions")>>)
              /\ UNCHANGED wfLocals
         ELSE /\ WriteAbort(IdsOf(processed_submissions, "submission_id"), {})
              /\ UNCHANGED tblSubmissions
    /\ UNCHANGED <<envVars, callVars, concVars, tblSubreddits, tblComments, ncalls>>

\* comments = self.scraper.get_comments(list(processed_submissions.submission_id))
FD_GetComments ==
    /\ pc = "fd_comments"
    /\ LET sids == Column(processed_submissions, "submission_id")
       IN \E gn \in FailChoices(sids) :
            LET r == GetComments(sids, {}, gn, epoch)
            IN IF r.raised
               THEN FetchAbort
               ELSE /\ fetched_comments' = r.rows
                    /\ GoOn("fd_pcomments", call)
                    /\ UNCHANGED <<processed_submissions, submission_ids,
                                   updated_submissions, processed_comments,
                                   updated_comments>>
    /\ UNCHANGED <<envVars, callVars, concVars, storeVars, ncalls, lastins>>

\* RedditManager.process_comments
ProcessComments(cs) ==
    LET kept == DedupComments(cs, Column(tblComments, "comment_id"))
    IN [k \in 1..Len(kept) |->
          [created_utc     |-> kept[k].created_utc,
           submission_id   |-> kept[k].submission_id,
           comment_id      |-> kept[k].comment_id,
           cleaned_comment |-> Clean(kept[k].body),
           score           |-> kept[k].score]]

\* processed_comments = self.process_comments(comments)
FD_ProcessComments ==
    /\ pc = "fd_pcomments"
    /\ LET kept == ProcessComments(fetched_comments)
       IN IF kept = <<>>
          THEN FetchDone(call)
          ELSE /\ processed_comments' = kept
               /\ GoOnAfter("fd_cinsert", call, <<Read("RedditComments")>>)
               /\ UNCHANGED <<processed_submissions, submission_ids,
                              updated_submissions, fetched_comments,
                              updated_comments>>
    /\ UNCHANGED <<envVars, callVars, concVars, storeVars, ncalls, lastins>>

\* insert_values(models.RedditComments, processed_comments)
FD_InsertComments ==
    /\ pc = "fd_cinsert"
    /\ lastins' = InsertCall("RedditComments", tblComments, processed_comments)
    /\ \E db_ok \in BOOLEAN :
         IF db_ok /\ InsertAllowed("RedditComments", tblComments, processed_comments)
         THEN /\ tblComments' = InsertValues(tblComments, processed_comments)
              /\ FetchDone([call EXCEPT !.inserted = @ + Len(processed_comments)])
         ELSE /\ WriteAbort(IdsOf(processed_submissions, "submission_id"),
                            IdsOf(processed_comments, "comment_id"))
              /\ UNCHANGED tblComments
    /\ UNCHANGED <<envVars, callVars, concVars, tblSubreddits, tblSubmissions, ncalls>>

----------------------------------------------------------------------------
(* RedditManager.update_submissions / update_comments *)

TickerLists == {<<"GME">>, <<"AAPL", "GME">>}

\* daterange: [start, end] datetimes
DateRanges == {<<ToDatetime(0), ToDatetime(100000)>>,
               <<ToDatetime(80000), ToDatetime(100000)>>}

\* created_utc.between(*daterange): both ends included
Between(t, daterange) == daterange[1][2] <= t[2] /\ t[2] <= daterange[2][2]

\* update_submissions(tickers, daterange)
US_Call ==
    /\ pc = "idle"
    /\ ncalls < MaxCalls
    /\ \E tickers \in TickerLists, daterange \in DateRanges :
         call' = [op |-> "update_submissions", tickers |-> tickers,
                  daterange |-> daterange, i |-> 1, status |-> "running",
                  inserted |-> 0]
    /\ ncalls' = ncalls + 1
    /\ pc' = "us_read"
    /\ lastins' = NoInsert
    /\ dbcalls' = <<>>
    /\ script' = <<>>
    /\ lastfetch' = NoFetch
    /\ UNCHANGED <<gsLocals, replay, envVars, callVars, concVars, storeVars, wfLocals>>

\* lines 200-206: the stored submission ids of the ticker in the date range
US_Read ==
    /\ pc = "us_read"
    /\ submission_ids' =
         Column(SelectSeq(tblSubmissions,
                          LAMBDA r : /\ r.ticker = call.tickers[call.i]
                                     /\ Between(r.created_utc, call.daterange)),
                "submission_id")
    /\ GoOnAfter("us_details", call, <<Read("RedditSubmissions")>>)
    /\ UNCHANGED <<processed_submissions, updated_submissions, fetched_comments,
                   processed_comments, updated_comments>>
    /\ UNCHANGED <<envVars, callVars, concVars, storeVars, ncalls, lastins>>

\* lines 209-213: get_submission_details(submission_ids, ['id', 'score']),
\* id renamed to submission_id
US_Details ==
    /\ pc = "us_details"
    /\ \E gn \in FailChoices(submission_ids) :
         LET r == GetSubmissionDetails(submission_ids, {}, gn, epoch)
         IN IF r.raised
            THEN UpdateReturn(call, "raised")
            ELSE /\ updated_submissions' =
                      [k \in 1..Len(r.rows) |->
                         [submission_id |-> r.rows[k].id, score |-> r.rows[k].score]]
                 /\ GoOn("us_update", call)
                 /\ UNCHANGED <<processed_submissions, submission_ids,
                                fetched_comments, processed_comments,
                                updated_comments>>
    /\ UNCHANGED <<envVars, callVars, concVars, storeVars, ncalls, lastins>>

\* lines 216-220: update_values(RedditSubmissions, updated_submissions,
\* on='submission_id')
US_UpdateSubmissions ==
    /\ pc = "us_update"
    /\ \E db_ok \in BOOLEAN :
         IF db_ok
         THEN /\ tblSubmissions' =
                   UpdateValues(tblSubmissions, updated_submissions, "submission_id")
              /\ GoOnAfter("us_comments", call, Update("RedditSubmissions"))
              /\ UNCHANGED wfLocals
         ELSE UpdateReturn(call, "raised") /\ UNCHANGED tblSubmissions
    /\ UNCHANGED <<envVars, callVars, concVars, tblSubreddits, tblComments, ncalls, lastins>>

\* line 223: comments = self.scraper.get_comments(submission_ids)
US_GetComments ==
    /\ pc = "us_comments"
    /\ \E gn \in FailChoices(submission_ids) :
         LET r == GetComments(submission_ids, {}, gn, epoch)
         IN IF r.raised
            THEN UpdateReturn(call, "raised")
            ELSE /\ fetched_comments' = r.rows
                 /\ GoOn("us_pcomments", call)
                 /\ UNCHANGED <<processed_submissions, submission_ids,
                                updated_submissions, processed_comments,
                                updated_comments>>
    /\ UNCHANGED <<envVars, callVars, concVars, storeVars, ncalls, lastins>>

\* line 224: processed_comments = self.process_comments(comments)
US_ProcessComments ==
    /\ pc = "us_pcomments"
    /\ processed_comments' = ProcessComments(fetched_comments)
    /\ GoOnAfter(IF ProcessComments(fetched_comments) = <<>>
                 THEN "us_old" ELSE "us_cinsert", call, <<Read("RedditComments")>>)
    /\ UNCHANGED <<processed_submissions, submission_ids, updated_submissions,
                   fetched_comments, updated_comments>>
    /\ UNCHANGED <<envVars, callVars, concVars, storeVars, ncalls, lastins>>

\* lines 227-232: insert_values(RedditComments, processed_comments)
US_InsertComments ==
    /\ pc = "us_cinsert"
    /\ lastins' = InsertCall("RedditComments", tblComments, processed_comments)
    /\ \E db_ok \in BOOLEAN :
         IF db_ok /\ InsertAllowed("RedditComments", tblComments, processed_comments)
         THEN /\ tblComments' = InsertValues(tblComments, processed_comments)
              /\ GoOnAfter("us_old",
                           [call EXCEPT !.inserted = @ + Len(processed_comments)],
                           <<Insert("RedditComments")>>)
              /\ UNCHANGED wfLocals
         ELSE UpdateReturn(call, "raised") /\ UNCHANGED tblComments
    /\ UNCHANGED <<envVars, callVars, concVars, tblSubreddits, tblSubmissions, ncalls>>

\* every fetched comment taken as already stored
OldComments_all(comments, processed) == comments

\* line 235: comments[~comments.comment_id.isin(processed_comments.comment_id)]
OldComments(comments, processed) ==
    SelectSeq(comments,
              LAMBDA r : ~IsIn(r.comment_id, Column(processed, "comment_id")))

\* the next ticker of the for loop, or the return
NextTicker ==
    IF call.i < Len(call.tickers)
    THEN /\ pc' = "us_read"
         /\ call' = [call EXCEPT !.i = @ + 1]
         /\ dbcalls' = <<>>
         /\ UNCHANGED <<gsLocals, script, replay, lastfetch, wfLocals>>
    ELSE UpdateReturn(call, "done")

\* lines 235-239 and update_comments up to the rename: the comments already
\* stored and their details
US_OldComments ==
    /\ pc = "us_old"
    /\ LET old_comments == OldComments(fetched_comments, processed_comments)
           comment_ids == Column(old_comments, "comment_id")
       IN IF old_comments = <<>>
          THEN NextTicker
          ELSE \E gn \in FailChoices(comment_ids) :
                 LET r == GetCommentDetails(comment_ids, {}, gn, epoch)
                 IN IF r.raised
                    THEN UpdateReturn(call, "raised")
                    ELSE /\ updated_comments' =
                              [k \in 1..Len(r.rows) |->
                                 [comment_id |-> r.rows[k].id,
                                  score |-> r.rows[k].score]]
                         /\ GoOn("us_cupdate", call)
                         /\ UNCHANGED <<processed_submissions, submission_ids,
                                        updated_submissions, fetched_comments,
                                        processed_comments>>
    /\ UNCHANGED <<envVars, callVars, concVars, storeVars, ncalls, lastins>>

\* update_comments, lines 259-263: update_values(RedditComments,
\* updated_comments, on='comment_id')
US_UpdateComments ==
    /\ pc = "us_cupdate"
    /\ \E db_ok \in BOOLEAN :
         IF db_ok
         THEN /\ tblComments' =
                   UpdateValues(tblComments, updated_comments, "comment_id")
              /\ NextTicker
         ELSE UpdateReturn(call, "raised") /\ UNCHANGED tblComments
    /\ UNCHANGED <<envVars, callVars, concVars, tblSubreddits, tblSubmissions, ncalls, lastins>>

----------------------------------------------------------------------------
(* The ingestion and refresh runs against one store *)

Init ==
    /\ pc = "idle"
    /\ call = [op |-> "none", status |-> "none", inserted |-> 0]
    /\ pbefore = [t |-> "str", v |-> 0]
    /\ before = 0
    /\ after = 0
    /\ limit = 0
    /\ submissions = <<>>
    /\ sent = <<>>
    /\ script = <<>>
    /\ replay = FALSE
    /\ warnings = 0
    /\ gsret = NoReturn
    /\ epoch = 0
    /\ arg = NoArg
    /\ res = NoRes
    /\ StoreEmpty
    /\ WorkflowIdle
    /\ ConcurrentIdle

Next ==
    \/ FD_Call
    \/ FD_CallAgain
    \/ FD_Retry
    \/ GS_Page
    \/ GS_Finish
    \/ FD_ProcessSubmissions
    \/ FD_UpdateSubreddits
    \/ FD_MapSubreddits
    \/ FD_InsertSubmissions
    \/ FD_GetComments
    \/ FD_ProcessComments
    \/ FD_InsertComments
    \/ US_Call
    \/ US_Read
    \/ US_Details
    \/ US_UpdateSubmissions
    \/ US_GetComments
    \/ US_ProcessComments
    \/ US_InsertComments
    \/ US_OldComments
    \/ US_UpdateComments
    \/ Tick

Spec == Init /\ [][Next]_vars

----------------------------------------------------------------------------
(* DBConnection and DatabaseManager.insert_values, entered by several       *)
(* threads that share one DatabaseManager (app.py: the module-level          *)
(* reddit_manager serves every callback)                                     *)

Callers == 1..MaxCallers

\* the rows caller c inserts: keys 10 * c + k
BatchOf(c, n) == [k \in 1..n |-> [submission_id |-> (10 * c) + k]]

\* the caller a stored or pending row came from
OwnerOf(row) == row.submission_id \div 10

\* what a caller passes as `values`
ValueChoices(c) ==
    {[kind |-> kd, rows |-> BatchOf(c, n)] :
        kd \in {"DataFrame", "list"}, n \in 1..MaxBatch}

\* a test that lets every value through
IsDataFrame_any(values) == TRUE

\* isinstance(values, pd.DataFrame)
IsDataFrame(values) == values.kind = "DataFrame"

NotCalled == [pc |-> "idle", values |-> [kind |-> "none", rows |-> <<>>],
              session |-> 0, raised |-> "none", outcome |-> "none",
              writes |-> 0, failat |-> 0]

\* self.Session()
NewSession(c) == [owner |-> c, pending |-> <<>>, state |-> "active",
                  commits |-> <<>>, closes |-> <<>>]

\* a failing bulk operation that leaves the rows it had written in the
\* transaction
FlushFailure_keeps_rows(sn, written) ==
    [sn EXCEPT !.pending = @ \o written]

\* session.bulk_insert_mappings raising at some row: the flush is rolled back
\* by the session, which stays unusable until rollback() or close()
FlushFailure(sn, written) ==
    [sn EXCEPT !.pending = <<>>, !.state = "inactive"]

sessionRest == <<pc, pagingVars, envVars, call, callVars, tblSubreddits,
                 tblComments, wfVars, raceVars>>

\* insert_values(model, values), lines 54-57 and 63-64: the type test
IV_Call ==
    \E c \in Callers :
       /\ callers[c].pc = "idle"
       /\ \E v \in ValueChoices(c) :
            callers' = [callers EXCEPT ![c] =
               IF IsDataFrame(v)
               THEN [@ EXCEPT !.pc = "enter", !.values = v]
               ELSE [@ EXCEPT !.pc = "done", !.values = v,
                              !.raised = "TypeError", !.outcome = "raised"]]
       /\ UNCHANGED <<sessions, cur, tblSubmissions, sessionRest>>

\* DBConnection.__enter__, line 16: self.session = self.Session()
CN_EnterAssign ==
    \E c \in Callers :
       /\ callers[c].pc = "enter"
       /\ sessions' = Append(sessions, NewSession(c))
       /\ cur' = Len(sessions) + 1
       /\ callers' = [callers EXCEPT ![c].pc = "entered"]
       /\ UNCHANGED <<tblSubmissions, sessionRest>>

\* DBConnection.__enter__, line 17: return self.session
CN_EnterReturn ==
    \E c \in Callers :
       /\ callers[c].pc = "entered"
       /\ callers' = [callers EXCEPT ![c].pc = "body", ![c].session = cur]
       /\ UNCHANGED <<sessions, cur, tblSubmissions, sessionRest>>

\* the body of the with block, lines 59-62: session.bulk_insert_mappings.
\* failat = 0: every row is written into the session's transaction;
\* failat = k: row k is refused (constraint, lost connection).
IV_Write ==
    \E c \in Callers :
       /\ callers[c].pc = "body"
       /\ LET sid == callers[c].session
              rows == callers[c].values.rows
          IN \E failat \in 0..Len(rows) :
               /\ sessions[sid].state = "inactive" => failat = 1
               /\ IF failat = 0
                  THEN /\ sessions' = [sessions EXCEPT ![sid].pending = @ \o rows]
                       /\ callers' = [callers EXCEPT ![c].pc = "exit",
                                                     ![c].writes = @ + 1]
                  ELSE /\ sessions' = [sessions EXCEPT ![sid] =
                              FlushFailure(@, SubSeq(rows, 1, failat - 1))]
                       /\ callers' = [callers EXCEPT ![c].pc = "exit",
                                                     ![c].writes = @ + 1,
                                                     ![c].failat = failat,
                                                     ![c].raised = "write"]
       /\ UNCHANGED <<cur, tblSubmissions, sessionRest>>

\* DBConnection.__exit__, line 20: self.session.commit(), whatever the body
\* did.  A session whose flush failed refuses; a commit can fail; an
\* exception here leaves __exit__ before line 21.
CN_ExitCommit ==
    \E c \in Callers :
       /\ callers[c].pc = "exit"
       /\ \E commit_ok \in BOOLEAN :
            IF sessions[cur].state = "active" /\ commit_ok
            THEN /\ tblSubmissions' = InsertValues(tblSubmissions, sessions[cur].pending)
                 /\ sessions' = [sessions EXCEPT ![cur].pending = <<>>,
                                                 ![cur].commits = Append(@, c)]
                 /\ callers' = [callers EXCEPT ![c].pc = "close"]
            ELSE /\ sessions' = [sessions EXCEPT ![cur].pending = <<>>,
                                                 ![cur].state = "inactive",
                                                 ![cur].commits = Append(@, c)]
                 /\ callers' = [callers EXCEPT ![c].pc = "done",
                                               ![c].raised = "commit",
                                               ![c].outcome = "raised"]
                 /\ UNCHANGED tblSubmissions
       /\ UNCHANGED <<cur, sessionRest>>

\* DBConnection.__exit__, line 21: self.session.close(); __exit__ returns
\* None, so an exception of the body goes on to the caller
CN_ExitClose ==
    \E c \in Callers :
       /\ callers[c].pc = "close"
       /\ sessions' = [sessions EXCEPT ![cur].pending = <<>>,
                                       ![cur].state = "active",
                                       ![cur].closes = Append(@, c)]
       /\ callers' = [callers EXCEPT
             ![c].pc = "done",
             ![c].outcome = IF callers[c].raised = "none"
                            THEN "returned" ELSE "raised"]
       /\ UNCHANGED <<cur, tblSubmissions, sessionRest>>

InitSession ==
    /\ pc = "idle"
    /\ call = [op |-> "insert_values", status |-> "none", inserted |-> 0]
    /\ pbefore = [t |-> "str", v |-> 0]
    /\ before = 0
    /\ after = 0
    /\ limit = 0
    /\ submissions = <<>>
    /\ sent = <<>>
    /\ script = <<>>
    /\ replay = FALSE
    /\ warnings = 0
    /\ gsret = NoReturn
    /\ epoch = 0
    /\ arg = NoArg
    /\ res = NoRes
    /\ StoreEmpty
    /\ WorkflowIdle
    /\ sessions = <<>>
    /\ cur = 0
    /\ callers = [c \in Callers |-> NotCalled]
    /\ pipelines = <<>>

NextSession ==
    \/ IV_Call
    \/ CN_EnterAssign
    \/ CN_EnterReturn
    \/ IV_Write
    \/ CN_ExitCommit
    \/ CN_ExitClose

SpecSession == InitSession /\ [][NextSession]_vars

----------------------------------------------------------------------------
(* fetch_data run by several processes at once, each with its own            *)
(* DatabaseManager, on one store: every store call is one transaction        *)

Pipelines == 1..MaxPipelines

\* what the source returns to a pipeline
RaceBatches == {<<1>>, <<2, 1>>, <<3>>}

NotStarted == [pc |-> "start", rows |-> <<>>, new_subs |-> <<>>,
               comments |-> <<>>, conflict |-> FALSE, outcome |-> "none"]

raceRest == <<pc, pagingVars, envVars, call, callVars, wfVars, sessVars>>

\* the pipeline ends: returned, or raised by a refused insert
Ends(p, how) ==
    pipelines' = [pipelines EXCEPT ![p].pc = "done", ![p].outcome = how]

\* fetch_data, line 299: get_submissions
RP_Fetch ==
    \E p \in Pipelines, batch \in RaceBatches :
       /\ pipelines[p].pc = "start"
       /\ pipelines' = [pipelines EXCEPT
             ![p].pc = "dedup",
             ![p].rows = ProcessSubmissionsDF(batch, "GME", {}, epoch).rows]
       /\ UNCHANGED <<storeVars, raceRest>>

\* process_submissions, lines 126-132
RP_Dedup ==
    \E p \in Pipelines :
       /\ pipelines[p].pc = "dedup"
       /\ LET kept == DedupSubmissions(pipelines[p].rows,
                                       Column(tblSubmissions, "submission_id"))
          IN IF kept = <<>>
             THEN Ends(p, "returned")
             ELSE pipelines' = [pipelines EXCEPT ![p].pc = "subs", ![p].rows = kept]
       /\ UNCHANGED <<storeVars, raceRest>>

\* update_subreddits, lines 74 and 93-97: the names not stored yet
RP_NewSubs ==
    \E p \in Pipelines :
       /\ pipelines[p].pc = "subs"
       /\ \E order \in Orders(NewSubs(Column(pipelines[p].rows, "subreddit"))) :
            pipelines' = [pipelines EXCEPT
               ![p].pc = IF order = <<>> THEN "map" ELSE "subs_insert",
               ![p].new_subs = order]
       /\ UNCHANGED <<storeVars, raceRest>>

\* update_subreddits, lines 100-110: details, insert_values(Subreddits)
RP_InsertSubreddits ==
    \E p \in Pipelines :
       /\ pipelines[p].pc = "subs_insert"
       /\ LET new_sub_info == GetSubredditDetails(pipelines[p].new_subs, epoch)
          IN IF InsertAllowed("Subreddits", tblSubreddits, new_sub_info)
             THEN /\ tblSubreddits' = InsertValues(tblSubreddits, new_sub_info)
                  /\ pipelines' = [pipelines EXCEPT ![p].pc = "map"]
             ELSE /\ Ends(p, "raised")
                  /\ UNCHANGED tblSubreddits
       /\ UNCHANGED <<tblSubmissions, tblComments, raceRest>>

\* process_submissions, lines 140-153
RP_Map ==
    \E p \in Pipelines :
       /\ pipelines[p].pc = "map"
       /\ IF CanMap(pipelines[p].rows)
          THEN pipelines' = [pipelines EXCEPT
                  ![p].pc = "insert", ![p].rows = MapSubreddits(pipelines[p].rows)]
          ELSE Ends(p, "raised")
       /\ UNCHANGED <<storeVars, raceRest>>

\* fetch_data, lines 303-309: insert_values(RedditSubmissions)
RP_InsertSubmissions ==
    \E p \in Pipelines :
       /\ pipelines[p].pc = "insert"
       /\ LET rows == pipelines[p].rows
              taken == IdsOf(rows, "submission_id")
                          \cap IdsOf(tblSubmissions, "submission_id") # {}
          IN IF InsertAllowed("RedditSubmissions", tblSubmissions, rows)
             THEN /\ tblSubmissions' = InsertValues(tblSubmissions, rows)
                  /\ pipelines' = [pipelines EXCEPT ![p].pc = "comments",
                                                    ![p].conflict = taken]
             ELSE /\ pipelines' = [pipelines EXCEPT ![p].pc = "done",
                                                    ![p].outcome = "raised",
                                                    ![p].conflict = taken]
                  /\ UNCHANGED tblSubmissions
       /\ UNCHANGED <<tblSubreddits, tblComments, raceRest>>

\* fetch_data, lines 311-314: get_comments
RP_GetComments ==
    \E p \in Pipelines :
       /\ pipelines[p].pc = "comments"
       /\ pipelines' = [pipelines EXCEPT
             ![p].pc = "cdedup",
             ![p].comments =
                 GetComments(Column(pipelines[p].rows, "submission_id"),
                             {}, {}, epoch).rows]
       /\ UNCHANGED <<storeVars, raceRest>>

\* fetch_data, line 315: process_comments
RP_DedupComments ==
    \E p \in Pipelines :
       /\ pipelines[p].pc = "cdedup"
       /\ LET kept == ProcessComments(pipelines[p].comments)
          IN IF kept = <<>>
             THEN Ends(p, "returned")
             ELSE pipelines' = [pipelines EXCEPT ![p].pc = "cinsert",
                                                 ![p].comments = kept]
       /\ UNCHANGED <<storeVars, raceRest>>

\* fetch_data, lines 318-324: insert_values(RedditComments)
RP_InsertComments ==
    \E p \in Pipelines :
       /\ pipelines[p].pc = "cinsert"
       /\ LET rows == pipelines[p].comments
              taken == IdsOf(rows, "comment_id")
                          \cap IdsOf(tblComments, "comment_id") # {}
          IN IF InsertAllowed("RedditComments", tblComments, rows)
             THEN /\ tblComments' = InsertValues(tblComments, rows)
                  /\ pipelines' = [pipelines EXCEPT ![p].pc = "done",
                                                    ![p].outcome = "returned",
                                                    ![p].conflict = taken]
             ELSE /\ pipelines' = [pipelines EXCEPT ![p].pc = "done",
                                                    ![p].outcome = "raised",
                                                    ![p].conflict = taken]
                  /\ UNCHANGED tblComments
       /\ UNCHANGED <<tblSubreddits, tblSubmissions, raceRest>>

InitRace ==
    /\ pc = "idle"
    /\ call = [op |-> "fetch_data", status |-> "none", inserted |-> 0]
    /\ pbefore = [t |-> "str", v |-> 0]
    /\ before = 0
    /\ after = 0
    /\ limit = 0
    /\ submissions = <<>>
    /\ sent = <<>>
    /\ script = <<>>
    /\ replay = FALSE
    /\ warnings = 0
    /\ gsret = NoReturn
    /\ epoch = 0
    /\ arg = NoArg
    /\ res = NoRes
    /\ StoreEmpty
    /\ WorkflowIdle
    /\ sessions = <<>>
    /\ cur = 0
    /\ callers = <<>>
    /\ pipelines = [p \in Pipelines |-> NotStarted]

NextRace ==
    \/ RP_Fetch
    \/ RP_Dedup
    \/ RP_NewSubs
    \/ RP_InsertSubreddits
    \/ RP_Map
    \/ RP_InsertSubmissions
    \/ RP_GetComments
    \/ RP_DedupComments
    \/ RP_InsertComments

SpecRace == InitRace /\ [][NextRace]_vars

----------------------------------------------------------------------------
(* RedditManager.update_subreddits in both modes and                         *)
(* DatabaseManager.update_values, called on the Subreddits table             *)

SubredditNames == {SubredditName(i) : i \in SubmissionIds}

\* the `values` frames handed to update_values: rows keyed by name, stored or
\* not, with the columns to set; `rank` is no column of the table
ValueRows ==
    [name : SubredditNames \cup {"stocks"}, subscribers : {7001, 7002}]
    \cup [name : SubredditNames \cup {"stocks"}, subscribers : {7001}, rank : {1}]
    \cup [name : SubredditNames \cup {"stocks"}]

ValueFrames ==
    {q \in SeqsUpTo(ValueRows, MaxBatch) :
        \A i, j \in 1..Len(q) : DOMAIN q[i] = DOMAIN q[j]}

subredditsRest == <<pagingVars, callVars, concVars, tblSubmissions,
                    tblComments, wfLocals, lastfetch, lastins, dbcalls>>

\* the call returns (st = "done") or an exception leaves it
CallEnds(st) ==
    /\ pc' = "idle"
    /\ call' = [call EXCEPT !.status = st]

\* update_subreddits(subreddits_list, update_all)
SR_Call ==
    /\ pc = "idle"
    /\ ncalls < MaxCalls
    /\ \E subreddits_list \in SeqsUpTo(SubredditNames, MaxIds),
          update_all \in BOOLEAN :
         call' = [op |-> "update_subreddits", subreddits_list |-> subreddits_list,
                  update_all |-> update_all, status |-> "running"]
    /\ pc' = "sr_body"
    /\ ncalls' = ncalls + 1
    /\ UNCHANGED <<envVars, tblSubreddits, subredditsRest>>

\* lines 74-90, update_all: get_values, get_subreddit_details of the stored
\* names, then self.database_manager.update_table_values: DatabaseManager has
\* no attribute of that name (AttributeError); an error of the detail lookup
\* leaves the call the same way
SR_UpdateAll ==
    /\ pc = "sr_body"
    /\ call.update_all
    /\ CallEnds("raised")
    /\ UNCHANGED <<envVars, tblSubreddits, ncalls, subredditsRest>>

\* lines 74 and 92-110, add-new: the names not stored, their details, insert
SR_AddNew ==
    /\ pc = "sr_body"
    /\ ~call.update_all
    /\ LET new_subs == NewSubs(call.subreddits_list)
       IN IF new_subs = {}
          THEN CallEnds("done") /\ UNCHANGED tblSubreddits
          ELSE \E order \in Orders(new_subs), praw_ok \in BOOLEAN, db_ok \in BOOLEAN :
                 LET new_sub_info == GetSubredditDetails(order, epoch)
                 IN IF /\ praw_ok
                       /\ db_ok
                       /\ InsertAllowed("Subreddits", tblSubreddits, new_sub_info)
                    THEN /\ tblSubreddits' = InsertValues(tblSubreddits, new_sub_info)
                         /\ CallEnds("done")
                    ELSE CallEnds("raised") /\ UNCHANGED tblSubreddits
    /\ UNCHANGED <<envVars, ncalls, subredditsRest>>

\* update_values(models.Subreddits, values, on='name')
UV_Call ==
    /\ pc = "idle"
    /\ ncalls < MaxCalls
    /\ \E values \in ValueFrames :
         call' = [op |-> "update_values", model |-> "Subreddits",
                  values |-> values, on |-> "name", status |-> "running"]
    /\ pc' = "uv_body"
    /\ ncalls' = ncalls + 1
    /\ UNCHANGED <<envVars, tblSubreddits, subredditsRest>>

\* database_manager.py:77-95: merge, mappings, bulk_update_mappings
UV_Update ==
    /\ pc = "uv_body"
    /\ \E db_ok \in BOOLEAN :
         IF db_ok
         THEN /\ tblSubreddits' = UpdateValues(tblSubreddits, call.values, call.on)
              /\ CallEnds("done")
         ELSE CallEnds("raised") /\ UNCHANGED tblSubreddits
    /\ UNCHANGED <<envVars, ncalls, subredditsRest>>

InitSubreddits ==
    /\ pc = "idle"
    /\ call = [op |-> "none", status |-> "none"]
    /\ pbefore = [t |-> "str", v |-> 0]
    /\ before = 0
    /\ after = 0
    /\ limit = 0
    /\ submissions = <<>>
    /\ sent = <<>>
    /\ script = <<>>
    /\ replay = FALSE
    /\ warnings = 0
    /\ gsret = NoReturn
    /\ epoch = 0
    /\ arg = NoArg
    /\ res = NoRes
    /\ StoreEmpty
    /\ WorkflowIdle
    /\ ConcurrentIdle

NextSubreddits ==
    \/ SR_Call
    \/ SR_UpdateAll
    \/ SR_AddNew
    \/ UV_Call
    \/ UV_Update
    \/ Tick

SpecSubreddits == InitSubreddits /\ [][NextSubreddits]_vars

----------------------------------------------------------------------------
(* Properties of get_submissions (SpecPaging) *)

Returned == pc = "gs_done" /\ gsret.status = "returned"

FailureKinds == {"transport", "malformed"}

\* every response of the call so far was a page (empty or not)
NoPageFailed == \A k \in 1..Len(script) : script[k].kind = "data"

\* ceiling of (before0 - after) / before_decay: the empty pages a cursor that
\* starts at before0 can meet while it is above `after`
EmptyPagesAbove ==
    ((call.before - call.after) + (before_decay - 1)) \div before_decay

\* C1: get_submissions terminates after finitely many page requests.  The
\* claim's ground is that the cursor falls on every pass and the loop leaves
\* once it is <= after, which allows at most `limit` non-empty pages, the
\* empty pages that fit between before0 and after, and one failing page.
C1_TerminatesWithinCursorRange ==
    Len(sent) <= limit + EmptyPagesAbove + 1

\* C2: the `before` values of successive page requests are strictly
\* decreasing.
C2_CursorStrictlyDecreasing ==
    \A k \in 2..Len(sent) : sent[k] < sent[k - 1]

\* a run with a non-empty page followed by two empty ones
C2_Witness ==
    /\ Len(sent) >= 4
    /\ \E i \in SubmissionIds : sent[2] = CreatedUtc(i)
    /\ sent[3] = sent[2] - before_decay
    /\ sent[4] = sent[3] - before_decay

\* C3: the number of submissions get_submissions returns never exceeds
\* `limit` (every page holds at most `limit` items).
C3_CountWithinLimit ==
    Returned => Len(gsret.rows) <= limit

\* C4: a page request that fails (malformed response or transport error) is
\* logged and ends the paging, and the call returns the items of the earlier
\* pages; nothing is raised to the caller.
C4_PageFailureNotRaised ==
    (/\ pc = "gs_done"
     /\ script # <<>>
     /\ script[Len(script)].kind \in FailureKinds)
    => /\ gsret.status = "returned"
       /\ warnings >= 1
       /\ [k \in 1..Len(gsret.rows) |-> gsret.rows[k].submission_id] = submissions

\* C5: a window that holds no matching item gives an empty result, returned
\* once the cursor is at or below `after`; nothing is raised and the loop
\* does not go on below `after`.
C5_EmptyWindowReturnsEmpty ==
    (Matching(call.before, call.after) = <<>> /\ NoPageFailed)
    => /\ gsret.status # "raised"
       /\ pbefore.v <= after => (pc = "gs_loop" => ~LoopCondition)
       /\ Returned => gsret.rows = <<>> /\ pbefore.v <= after

----------------------------------------------------------------------------
(* Properties of single calls (SpecCalls) *)

DetailFns == {"get_submission_details", "get_comment_details", "get_comments"}

Count(q, x) == Cardinality({k \in 1..Len(q) : q[k] = x})

\* C6: a lookup that fails for one id is skipped and every later id of the
\* input is still looked up; nothing is raised, and the table holds the rows
\* of exactly the ids that resolved.
C6_FailedLookupSkipped ==
    (arg.fn \in DetailFns /\ res.done)
    => /\ ~res.raised
       /\ res.looked = arg.ids
       /\ arg.fn # "get_comments" =>
            [k \in 1..Len(res.rows) |-> res.rows[k].id]
              = SelectSeq(arg.ids, LAMBDA x : x \notin (arg.badid \cup arg.gone))

\* the id column of a batch of either entity
KeyOf(r) == IF arg.fn = "process_submissions" THEN r.submission_id ELSE r.comment_id

BatchKeys(batch) == [k \in 1..Len(batch) |-> KeyOf(batch[k])]

\* C7: the batch kept by the duplicate filter is exactly the candidates whose
\* id is not stored: no kept row has a stored id, and every candidate with an
\* unstored id is kept as often as it was fetched; stored {1, 2} and fetched
\* [1, 2, 3] keep exactly [3].
C7_DedupIsSetDifference ==
    (arg.fn \in {"process_submissions", "process_comments"} /\ res.done)
    => LET inKeys == BatchKeys(arg.batch)
           outKeys == BatchKeys(res.rows)
           storedSet == {arg.stored[k] : k \in 1..Len(arg.stored)}
       IN /\ \A k \in 1..Len(outKeys) : outKeys[k] \notin storedSet
          /\ \A k \in 1..Len(inKeys) :
                inKeys[k] \notin storedSet
                  => Count(outKeys, inKeys[k]) = Count(inKeys, inKeys[k])
          /\ Len(outKeys) <= Len(inKeys)
          /\ (arg.stored = <<1, 2>> /\ inKeys = <<1, 2, 3>>) => outKeys = <<3>>

\* scenario A has been run
C7_Witness ==
    /\ arg.fn = "process_submissions" /\ res.done
    /\ arg.stored = <<1, 2>>
    /\ BatchKeys(arg.batch) = <<1, 2, 3>>
    /\ BatchKeys(res.rows) = <<3>>

\* C8: every insert_values call for Submissions or Comments made by fetch_data
\* or update_submissions carries only ids absent from the store at the moment
\* of the call, and from the duplicate filter up to the insert the batch stays
\* disjoint from the stored ids.
C8_InsertOnlyAbsentIds ==
    /\ lastins.model \in {"RedditSubmissions", "RedditComments"}
          => lastins.stored = {}
    /\ pc \in {"fd_subreddits", "fd_map", "fd_insert"}
          => IdsOf(processed_submissions, "submission_id")
               \cap IdsOf(tblSubmissions, "submission_id") = {}
    /\ pc \in {"fd_cinsert", "us_cinsert"}
          => IdsOf(processed_comments, "comment_id")
               \cap IdsOf(tblComments, "comment_id") = {}

\* a submissions insert has just succeeded on a store that already held rows,
\* the filter having dropped part of the fetched batch
C8_Witness ==
    /\ pc = "fd_comments"
    /\ lastins.model = "RedditSubmissions"
    /\ lastins.keys # <<>>
    /\ Len(tblSubmissions) > Len(lastins.keys)
    /\ Len(gsret.rows) > Len(lastins.keys)

SubmissionFrame(r) ==
    [id |-> r.id, submission_id |-> r.submission_id, title |-> r.title,
     created_utc |-> r.created_utc, ticker |-> r.ticker,
     subreddit_id |-> r.subreddit_id]

CommentFrame(r) ==
    [id |-> r.id, comment_id |-> r.comment_id,
     cleaned_comment |-> r.cleaned_comment, created_utc |-> r.created_utc]

\* C9: score-only mutation: no step of update_submissions (update_comments
\* included) changes the title, created_utc, ticker or subreddit_id of a
\* stored Submission row nor the text or created_utc of a stored Comment row.
C9_ScoreOnlyMutation ==
    [][call.op = "update_submissions" =>
         /\ \A k \in 1..Len(tblSubmissions) :
               /\ k <= Len(tblSubmissions')
               /\ SubmissionFrame(tblSubmissions'[k]) = SubmissionFrame(tblSubmissions[k])
         /\ \A k \in 1..Len(tblComments) :
               /\ k <= Len(tblComments')
               /\ CommentFrame(tblComments'[k]) = CommentFrame(tblComments[k])]_vars

\* update_values has just rewritten the score of a submission that was stored
\* with its earlier score (its comment still carries the score of that time)
C9_Witness ==
    /\ pc = "us_comments"
    /\ call.op = "update_submissions"
    /\ epoch > 0
    /\ \E i \in 1..Len(tblSubmissions), j \in 1..Len(tblComments) :
          /\ IsIn(tblSubmissions[i].submission_id,
                  Column(updated_submissions, "submission_id"))
          /\ tblSubmissions[i].score = Score(tblSubmissions[i].submission_id, epoch)
          /\ tblComments[j].submission_id = tblSubmissions[i].submission_id
          /\ tblComments[j].score = Score(tblComments[j].comment_id, 0)

\* C10: idempotence: fetch_data invoked again with the arguments of a completed
\* call, the source returning the same pages, calls insert_values not once and
\* inserts zero Submission, Comment and Subreddit rows.
C10_SecondFetchInsertsNothing ==
    call.op = "fetch_data_again" => call.inserted = 0 /\ lastins = NoInsert

\* the repeated call has returned, the first one having stored submissions
C10_Witness ==
    /\ call.op = "fetch_data_again"
    /\ call.status = "done"
    /\ pc = "idle"
    /\ Len(tblSubmissions) > 1

----------------------------------------------------------------------------
(* Referential properties of the store (Spec) *)

\* C13: the subreddit_id written to a new Submission row by fetch_data is the
\* stored subreddit_id of the Subreddit row of that name, so every stored
\* Submission's subreddit_id references an existing Subreddit row.
C13_SubredditIdReferencesSubreddit ==
    \A k \in 1..Len(tblSubmissions) :
       tblSubmissions[k].subreddit_id \in ColumnSet(tblSubreddits, "subreddit_id")

\* C14: every stored Comment's submission_id is the submission_id of a stored
\* Submission row.
C14_CommentReferencesSubmission ==
    \A k \in 1..Len(tblComments) :
       tblComments[k].submission_id \in ColumnSet(tblSubmissions, "submission_id")

\* comments stored by fetch_data and by update_submissions, for two submissions
C14_Witness ==
    /\ call.op = "update_submissions"
    /\ pc = "us_old"
    /\ lastins.model = "RedditComments"
    /\ Cardinality(ColumnSet(tblComments, "submission_id")) > 1

\* C12: in a pass of update_submissions the fetched comments are split in two
\* disjoint sets that cover the batch: the ids handed to insert_values and the
\* ids handed to update_comments; the first were absent from the store, the
\* second stored.
C12_CommentsPartitioned ==
    /\ pc \in {"us_old", "us_cupdate"} =>
          /\ IdsOf(processed_comments, "comment_id")
                \subseteq IdsOf(fetched_comments, "comment_id")
          /\ IdsOf(fetched_comments, "comment_id")
                \subseteq IdsOf(tblComments, "comment_id")
    /\ pc = "us_cupdate" =>
          /\ IdsOf(processed_comments, "comment_id")
                \cap IdsOf(updated_comments, "comment_id") = {}
          /\ IdsOf(processed_comments, "comment_id")
                \cup IdsOf(updated_comments, "comment_id")
                = IdsOf(fetched_comments, "comment_id")
          /\ processed_comments # <<>> =>
                /\ lastins.model = "RedditComments"
                /\ lastins.keys = Column(processed_comments, "comment_id")
                /\ lastins.stored = {}

\* one pass has inserted a new comment and goes on to update a stored one
C12_Witness ==
    /\ pc = "us_cupdate"
    /\ processed_comments # <<>>
    /\ updated_comments # <<>>

----------------------------------------------------------------------------
(* Properties of update_submissions and of repeated fetch_data (Spec) *)

\* C11: when update_submissions finds no stored submission of the ticker in
\* the date range, the pass makes no store call after the initial (empty) read
\* of the submission ids.
C11_NoStoreCallAfterEmptyRead ==
    (/\ call.op = "update_submissions"
     /\ pc \in {"us_details", "us_update", "us_comments", "us_pcomments",
                "us_cinsert", "us_old", "us_cupdate"}
     /\ submission_ids = <<>>)
        => dbcalls = <<Read("RedditSubmissions")>>

\* C19: when a store write failure ended fetch_data at one of its write steps
\* and fetch_data is invoked again with the same arguments and succeeds, every
\* Submission and Comment the failed invocation was about to insert is stored.
C19_RetryStoresPending ==
    (call.op = "fetch_data_retry" /\ call.status = "done") =>
        /\ call.pending.submissions \subseteq IdsOf(tblSubmissions, "submission_id")
        /\ call.pending.comments \subseteq IdsOf(tblComments, "comment_id")

----------------------------------------------------------------------------
(* Properties of DBConnection and insert_values (SpecSession) *)

StoredOf(c) == SelectSeq(tblSubmissions, LAMBDA r : OwnerOf(r) = c)

PendingOf(c) ==
    {k \in 1..Len(sessions) :
        \E j \in 1..Len(sessions[k].pending) : OwnerOf(sessions[k].pending[j]) = c}

\* C15: when the store write of a caller fails (the bulk insert is refused at
\* some row, or, for a caller alone in the scope, the commit fails), the
\* transaction is rolled back, no row of that batch persists, the caller gets
\* an error and the write is not attempted again.
C15_FailedWriteLeavesNoRow ==
    \A c \in Callers :
       (\/ callers[c].failat # 0
        \/ callers[c].raised = "commit" /\ Len(sessions) = 1)
          => /\ StoredOf(c) = <<>>
             /\ PendingOf(c) = {}
             /\ callers[c].writes <= 1
             /\ callers[c].raised # "none"
             /\ callers[c].pc = "done" => callers[c].outcome = "raised"

\* a batch refused at its second row, the call over
C15_Witness ==
    \E c \in Callers :
       /\ callers[c].failat = 2
       /\ callers[c].pc = "done"
       /\ callers[c].outcome = "raised"

\* C16: the scope of DBConnection commits on success, does not commit when
\* the body raised, and closes the session on every exit path (a caller alone
\* in the scope).
C16_ScopeRollsBackAndReleases ==
    \A c \in Callers :
       (callers[c].pc = "done" /\ callers[c].session # 0 /\ Len(sessions) = 1)
          => /\ sessions[1].closes = <<c>>
             /\ callers[c].failat # 0 => sessions[1].commits = <<>>
             /\ callers[c].failat = 0 => sessions[1].commits = <<c>>

\* C17: when the scopes of two callers interleave and both return, every
\* session was committed once and closed once, by the caller that opened it.
C17_SessionsNotShared ==
    (\A c \in Callers : callers[c].pc = "done" /\ callers[c].outcome = "returned")
       => \A k \in 1..Len(sessions) :
             /\ sessions[k].commits = <<sessions[k].owner>>
             /\ sessions[k].closes = <<sessions[k].owner>>

\* C20: insert_values called with values that are no DataFrame raises a
\* TypeError at once: no session is opened, nothing is written, the store
\* holds no row of the call.
C20_NonTabularRejected ==
    \A c \in Callers :
       callers[c].values.kind \notin {"none", "DataFrame"}
          => /\ callers[c].pc = "done"
             /\ callers[c].outcome = "raised"
             /\ callers[c].raised = "TypeError"
             /\ callers[c].session = 0
             /\ callers[c].writes = 0
             /\ \A k \in 1..Len(sessions) : sessions[k].owner # c
             /\ StoredOf(c) = <<>>

\* a list was refused while another caller's rows went into the store
C20_Witness ==
    \E c, d \in Callers :
       /\ callers[c].values.kind = "list"
       /\ callers[c].raised = "TypeError"
       /\ StoredOf(d) # <<>>

----------------------------------------------------------------------------
(* Properties of concurrent fetch_data runs (SpecRace) *)

\* C18: with fetch_data pipelines racing on one store, no submission_id and no
\* comment_id is ever stored twice, and a pipeline whose insert carries an id
\* that is stored by then ends with a store write failure.
C18_NoDuplicateUnderRace ==
    /\ NoDuplicates(Column(tblSubmissions, "submission_id"))
    /\ NoDuplicates(Column(tblComments, "comment_id"))
    /\ \A p \in Pipelines :
          pipelines[p].conflict =>
             pipelines[p].pc = "done" /\ pipelines[p].outcome = "raised"

\* one pipeline lost the race for an id the other one stored
C18_Witness ==
    \E p, q \in Pipelines :
       /\ pipelines[p].conflict
       /\ pipelines[p].outcome = "raised"
       /\ pipelines[q].outcome = "returned"
       /\ IdsOf(pipelines[p].rows, "submission_id")
             \cap IdsOf(pipelines[q].rows, "submission_id") # {}

----------------------------------------------------------------------------
(* Further properties of get_submissions (SpecPaging) *)

\* C24: a page request is issued only while the cursor is strictly greater
\* than `after`: every request carries a `before` above `after`.
C24_RequestsOnlyAboveAfter ==
    \A k \in 1..Len(sent) : sent[k] > after

\* the k-th response was a page without items
EmptyPage(k) == script[k].kind = "data" /\ script[k].n = 0

\* C25: an empty page is not an error: nothing is raised, the cursor is
\* decremented by exactly 18000 and the next request carries the decremented
\* cursor (100000, 82000, 64000, 46000 for three empty pages), whether the
\* cursor came in as fetch_data passes it or as an integer.
C25_EmptyPageBacksOff ==
    /\ \A k \in 1..Len(script) :
          EmptyPage(k) =>
             /\ k = Len(script) => gsret.status # "raised"
             /\ k < Len(sent) => sent[k + 1] = sent[k] - before_decay
             /\ k = Len(sent) => pbefore.v = sent[k] - before_decay
    /\ (/\ Len(sent) >= 4
        /\ sent[1] = 100000
        /\ EmptyPage(1) /\ EmptyPage(2) /\ EmptyPage(3))
       => SubSeq(sent, 1, 4) = <<100000, 82000, 64000, 46000>>

\* the `limit` request parameter caps a page, the source caps it as well
PageSize == Min(limit, MaxPage)

\* every response so far was a page holding as many of the matching items
\* below the request's cursor as fit on it
FullPages ==
    \A k \in 1..Len(script) :
       /\ script[k].kind = "data"
       /\ script[k].n = Min(PageSize, Len(Matching(sent[k], after)))

\* C28: pagination neither loses nor repeats items: while no page failed and
\* the limit is not reached, every matching item of the window that the cursor
\* has passed (created_utc >= cursor, so no later request can return it) has
\* been collected, and no item was collected twice.
C28_NoItemLostOrRepeated ==
    (FullPages /\ Len(submissions) < limit)
    => /\ NoDuplicates(submissions)
       /\ \A i \in SubmissionIds :
             (/\ CreatedUtc(i) < call.before
              /\ CreatedUtc(i) > call.after
              /\ CreatedUtc(i) >= pbefore.v)
             => IsIn(i, submissions)

----------------------------------------------------------------------------
(* Further properties of fetch_data and update_submissions (Spec) *)

\* get_submissions has ended inside a first fetch_data call and the source
\* answered every page request of the call with an empty page
NothingFetched ==
    /\ pc = "gs_done"
    /\ call.op = "fetch_data"
    /\ script # <<>>
    /\ \A k \in 1..Len(script) : EmptyPage(k)

\* C27: fetch_data on a window for which the source returns no submissions at
\* all completes without raising and writes nothing to the store.
C27_EmptyFetchCompletes ==
    [][NothingFetched =>
         /\ call'.status = "done"
         /\ storeVars' = storeVars]_vars

\* the rows of a table stay, in place, with their keys
RowsStay(old, new, key) ==
    /\ Len(new) >= Len(old)
    /\ \A k \in 1..Len(old) : new[k][key] = old[k][key]

\* C29: update_submissions takes the tickers in list order, one pass after the
\* other, and an error raised in a pass ends the call there: the failing step
\* writes nothing, what was committed before it stays in the store, and no
\* pass is begun for a later ticker.
C29_ErrorStopsTickerLoop ==
    [][(call.op = "update_submissions" /\ call.status = "running") =>
         /\ call'.op = "update_submissions"
         /\ call'.tickers = call.tickers
         /\ \/ call'.i = call.i
            \/ /\ call'.i = call.i + 1
               /\ pc \in {"us_old", "us_cupdate"}
               /\ pc' = "us_read"
               /\ call'.status = "running"
         /\ call'.status = "raised" =>
               /\ pc' = "idle"
               /\ storeVars' = storeVars
               /\ dbcalls' = <<>>
         /\ pc' = "us_read" => pc \in {"us_old", "us_cupdate"}
         /\ RowsStay(tblSubreddits, tblSubreddits', "subreddit_id")
         /\ RowsStay(tblSubmissions, tblSubmissions', "submission_id")
         /\ RowsStay(tblComments, tblComments', "comment_id")]_vars

\* an error ended the call in the pass of the first of two tickers, after that
\* pass had inserted new comments
C29_Witness ==
    /\ call.op = "update_submissions"
    /\ call.status = "raised"
    /\ pc = "idle"
    /\ call.i < Len(call.tickers)
    /\ call.inserted > 0

\* position of the first call c among the store calls made, 0 when absent
FirstCall(c) ==
    IF \E k \in 1..Len(dbcalls) : dbcalls[k] = c
    THEN CHOOSE k \in 1..Len(dbcalls) :
            /\ dbcalls[k] = c
            /\ \A j \in 1..(k - 1) : dbcalls[j] # c
    ELSE 0

\* C23: resolve-then-insert: in every fetch_data run the Subreddit rows of the
\* new batch's names are stored when update_subreddits has returned, before
\* the insert of the batch's Submission rows starts; every Submission row
\* about to be inserted, and every stored one, carries the id of a stored
\* Subreddit row, and no Subreddit insert of the run follows its Submission
\* insert.
C23_SubredditsBeforeSubmissions ==
    /\ (pc = "fd_map" /\ IsFetch) =>
          \A k \in 1..Len(processed_submissions) :
             processed_submissions[k].subreddit \in ColumnSet(tblSubreddits, "name")
    /\ (pc = "fd_insert" /\ IsFetch) =>
          \A k \in 1..Len(processed_submissions) :
             processed_submissions[k].subreddit_id \in ColumnSet(tblSubreddits, "id")
    /\ \A k \in 1..Len(tblSubmissions) :
          tblSubmissions[k].subreddit_id \in ColumnSet(tblSubreddits, "id")
    /\ IsFetch =>
          \A i, j \in 1..Len(dbcalls) :
             (dbcalls[i] = Insert("Subreddits")
                /\ dbcalls[j] = Insert("RedditSubmissions")) => i < j

\* a run that stored new Subreddit rows and then the Submission rows of two
\* subreddits
C23_Witness ==
    /\ pc = "fd_comments" /\ IsFetch
    /\ FirstCall(Insert("Subreddits")) > 0
    /\ FirstCall(Insert("RedditSubmissions")) > FirstCall(Insert("Subreddits"))
    /\ Cardinality(IdsOf(processed_submissions, "subreddit_id")) = 2

----------------------------------------------------------------------------
(* Properties of update_subreddits and update_values (SpecSubreddits) *)

\* C21: update_subreddits(update_all=True) completes without error and leaves
\* every stored Subreddit row in place with the subscriber count just
\* fetched; no row is added or removed.
C21_RefreshAllUpdatesCounts ==
    [][(/\ call.op = "update_subreddits"
        /\ call.update_all
        /\ pc = "sr_body"
        /\ pc' # "sr_body")
       => /\ call'.status = "done"
          /\ Len(tblSubreddits') = Len(tblSubreddits)
          /\ \A k \in 1..Len(tblSubreddits) :
                tblSubreddits'[k] =
                   [tblSubreddits[k] EXCEPT
                      !.subscribers = Subscribers(tblSubreddits[k].name, epoch)]]_vars

\* the candidate names of an update_subreddits call
Candidates == {call.subreddits_list[k] : k \in 1..Len(call.subreddits_list)}

\* C22: a completed add-new update_subreddits call has inserted exactly one
\* row per distinct candidate name that was not stored and none for a stored
\* name: the stored names are then the union of the earlier names and the
\* candidates, the earlier rows are as they were, and no name is stored twice.
C22_AddNewInsertsMissingNames ==
    /\ [](NoDuplicates(Column(tblSubreddits, "name")))
    /\ [][(/\ call.op = "update_subreddits"
           /\ ~call.update_all
           /\ pc = "sr_body"
           /\ call'.status = "done")
          => /\ ColumnSet(tblSubreddits', "name")
                  = ColumnSet(tblSubreddits, "name") \cup Candidates
             /\ Len(tblSubreddits') = Len(tblSubreddits)
                  + Cardinality(Candidates \ ColumnSet(tblSubreddits, "name"))
             /\ SubSeq(tblSubreddits', 1, Len(tblSubreddits)) = tblSubreddits
             /\ NoDuplicates(Column(tblSubreddits', "name"))]_vars

\* an add-new call given three candidates, one of them stored by an earlier
\* call and one of them twice, has completed
C22_Witness ==
    /\ pc = "idle"
    /\ call.op = "update_subreddits" /\ ~call.update_all
    /\ call.status = "done"
    /\ Len(call.subreddits_list) = 3
    /\ Len(tblSubreddits) = 2
    /\ Candidates = ColumnSet(tblSubreddits, "name")
    /\ tblSubreddits[1].subscribers = Subscribers(tblSubreddits[1].name, 0)
    /\ tblSubreddits[2].subscribers = Subscribers(tblSubreddits[2].name, 1)

\* the columns and the keys of the `values` of an update_values call
ValueColumns == IF call.values = <<>> THEN {} ELSE DOMAIN call.values[1]

ValueKeys == IdsOf(call.values, call.on)

====
